---------------------------- MODULE Spec2Model ----------------------------
(***************************************************************************)
(* The astro-proxy edge function (the compatibility gateway in front of    *)
(* the AstroAPI backend): allowlist, envelope resolution, query merge,     *)
(* payload normalizers and the forward/relay step of the serve handler.    *)
(*                                                                         *)
(* Strings are sequences of tokens: the separators "/", "?", "&", "=",     *)
(* " " and the dot segments "." and ".." are tokens of their own, every    *)
(* other token is a run of ordinary characters (a path segment, a key, a   *)
(* word).  Two strings of the program are equal exactly when their token   *)
(* sequences are.  JSON values are tagged records [t, v].                  *)
(***************************************************************************)
EXTENDS Integers, Sequences, FiniteSets, TLC

(***************************************************************************)
(* JSON / JavaScript values                                                *)
(***************************************************************************)
Undefined == [t |-> "undefined", v |-> 0]
Null      == [t |-> "null", v |-> 0]
Num(n)    == [t |-> "number", v |-> n]
Bool(b)   == [t |-> "boolean", v |-> b]
Str(s)    == [t |-> "string", v |-> s]
Obj(f)    == [t |-> "object", v |-> f]

NoKeys   == [k \in {} |-> Undefined]
EmptyObj == Obj(NoKeys)

IsObject(x) == x.t = "object"

\* o[k] of JavaScript: undefined for a missing key and for a non-object.
Get(x, k) == IF IsObject(x) /\ k \in DOMAIN x.v THEN x.v[k] ELSE Undefined

\* o[k] = v on an object value.
SetKey(x, k, val) ==
    Obj([j \in DOMAIN x.v \cup {k} |-> IF j = k THEN val ELSE x.v[j]])

\* delete o[k]
DelKey(x, k) == Obj([j \in DOMAIN x.v \ {k} |-> x.v[j]])

\* { ...x }: a fresh object with the own properties of x; none for a
\* number, a boolean, null or undefined.
Spread(x) == IF IsObject(x) THEN x ELSE EmptyObj

\* a ?? b
Nullish(x) == x.t \in {"undefined", "null"}
Coalesce(a, b) == IF Nullish(a) THEN b ELSE a

\* JavaScript truthiness.
Truthy(x) ==
    CASE x.t = "undefined" -> FALSE
      [] x.t = "null"      -> FALSE
      [] x.t = "boolean"   -> x.v
      [] x.t = "number"    -> x.v # 0
      [] x.t = "string"    -> x.v # <<>>
      [] OTHER             -> TRUE

(***************************************************************************)
(* Strings                                                                 *)
(***************************************************************************)
Digit(d) == CASE d = 0 -> "0" [] d = 1 -> "1" [] d = 2 -> "2" [] d = 3 -> "3"
              [] d = 4 -> "4" [] d = 5 -> "5" [] d = 6 -> "6" [] d = 7 -> "7"
              [] d = 8 -> "8" [] OTHER -> "9"

\* String(n) for a natural number: its decimal digits.
RECURSIVE Digits(_)
Digits(n) == IF n < 10 THEN <<Digit(n)>> ELSE Digits(n \div 10) \o <<Digit(n % 10)>>

\* String(value) as used for query values.
ToStr(x) ==
    CASE x.t = "string"  -> x.v
      [] x.t = "number"  -> Digits(x.v)
      [] x.t = "boolean" -> IF x.v THEN <<"true">> ELSE <<"false">>
      [] x.t = "null"    -> <<"null">>
      [] x.t = "undefined" -> <<"undefined">>
      [] OTHER           -> <<"[object Object]">>

\* F applied to the value of v: v is evaluated once, and F is given the
\* value.
OnValue(F(_), v) == CHOOSE r \in { F(x) : x \in {v} } : TRUE

\* s.trim()
RECURSIVE TrimStart(_)
TrimStart(s) == IF s # <<>> /\ Head(s) = " " THEN TrimStart(Tail(s)) ELSE s

RECURSIVE TrimEnd(_)
TrimEnd(s) ==
    IF s # <<>> /\ s[Len(s)] = " " THEN TrimEnd(SubSeq(s, 1, Len(s) - 1)) ELSE s

Trim(s) == TrimEnd(TrimStart(s))

\* s.startsWith(p)
StartsWith(s, p) == Len(s) >= Len(p) /\ SubSeq(s, 1, Len(p)) = p

\* s.includes(tok) for a one-token needle
Includes(s, tok) == \E i \in 1..Len(s) : s[i] = tok

UpperTok(w) ==
    CASE w = "get"    -> "GET"
      [] w = "Get"    -> "GET"
      [] w = "head"   -> "HEAD"
      [] w = "post"   -> "POST"
      [] w = "Post"   -> "POST"
      [] w = "put"    -> "PUT"
      [] w = "delete" -> "DELETE"
      [] OTHER        -> w

\* s.toUpperCase()
ToUpperCase(s) == [i \in 1..Len(s) |-> UpperTok(s[i])]

\* Index of the first occurrence of tok in s, 0 when there is none.
RECURSIVE IndexFrom(_, _, _)
IndexFrom(s, tok, i) ==
    IF i > Len(s) THEN 0
    ELSE IF s[i] = tok THEN i
    ELSE IndexFrom(s, tok, i + 1)

IndexOf(s, tok) == IndexFrom(s, tok, 1)

\* s.split(sep): every piece, separators removed.
RECURSIVE SplitAll(_, _)
SplitAll(s, sep) ==
    LET Pieces(text) ==
            LET Cut(i) == IF i = 0 THEN <<text>>
                          ELSE <<SubSeq(text, 1, i - 1)>>
                               \o SplitAll(SubSeq(text, i + 1, Len(text)), sep)
            IN  OnValue(Cut, IndexOf(text, sep))
    IN  OnValue(Pieces, s)

\* s.split(sep, limit): the first `limit` pieces of s.split(sep); the rest
\* of the string is not included.
SplitLimit(s, sep, limit) ==
    LET all == SplitAll(s, sep)
    IN  IF Len(all) <= limit THEN all ELSE SubSeq(all, 1, limit)

(***************************************************************************)
(* Allowlist registry                                                      *)
(***************************************************************************)
ALLOWED_EXACT_PATHS ==
    {
      <<"/">>,
      <<"/", "health">>,
      <<"/", "api-test">>,
      <<"/", "api", "/", "chat", "/", "astral-oracle">>,
      <<"/", "api", "/", "lunar-calendar">>,
      <<"/", "api", "/", "secondary-progressions">>,
      <<"/", "api", "/", "solar-return">>,
      <<"/", "v1", "/", "account", "/", "status">>,
      <<"/", "v1", "/", "account", "/", "plan">>,
      <<"/", "v1", "/", "account", "/", "plan-status">>,
      <<"/", "v1", "/", "ai", "/", "cosmic-chat">>,
      <<"/", "v1", "/", "alerts", "/", "retrogrades">>,
      <<"/", "v1", "/", "alerts", "/", "system">>,
      <<"/", "v1", "/", "astro", "/", "chart">>,
      <<"/", "v1", "/", "astro", "/", "chart", "/", "render-spec">>,
      <<"/", "v1", "/", "astro", "/", "composite">>,
      <<"/", "v1", "/", "astro", "/", "lunar-phases">>,
      <<"/", "v1", "/", "astro", "/", "progressions">>,
      <<"/", "v1", "/", "astro", "/", "solar-return">>,
      <<"/", "v1", "/", "astro", "/", "synastry">>,
      <<"/", "v1", "/", "astro", "/", "transits">>,
      <<"/", "v1", "/", "billing", "/", "entitlements">>,
      <<"/", "v1", "/", "billing", "/", "status">>,
      <<"/", "v1", "/", "bugs", "/", "report">>,
      <<"/", "v1", "/", "chart", "/", "distributions">>,
      <<"/", "v1", "/", "chart", "/", "natal">>,
      <<"/", "v1", "/", "chart", "/", "render-data">>,
      <<"/", "v1", "/", "chart", "/", "transits">>,
      <<"/", "v1", "/", "cosmic-timeline", "/", "next-7-days">>,
      <<"/", "v1", "/", "cosmic-weather">>,
      <<"/", "v1", "/", "cosmic-weather", "/", "range">>,
      <<"/", "v1", "/", "daily", "/", "summary">>,
      <<"/", "v1", "/", "dev", "/", "login-as">>,
      <<"/", "v1", "/", "diagnostics", "/", "ephemeris-check">>,
      <<"/", "v1", "/", "i18n", "/", "ptbr">>,
      <<"/", "v1", "/", "i18n", "/", "validate">>,
      <<"/", "v1", "/", "insights", "/", "areas-activated">>,
      <<"/", "v1", "/", "insights", "/", "care-suggestion">>,
      <<"/", "v1", "/", "insights", "/", "dominant-theme">>,
      <<"/", "v1", "/", "insights", "/", "life-cycles">>,
      <<"/", "v1", "/", "insights", "/", "mercury-retrograde">>,
      <<"/", "v1", "/", "insights", "/", "solar-return">>,
      <<"/", "v1", "/", "interpretation", "/", "natal">>,
      <<"/", "v1", "/", "lunations", "/", "calculate">>,
      <<"/", "v1", "/", "moon", "/", "timeline">>,
      <<"/", "v1", "/", "notifications", "/", "daily">>,
      <<"/", "v1", "/", "oracle", "/", "chat">>,
      <<"/", "v1", "/", "progressions", "/", "secondary", "/", "calculate">>,
      <<"/", "v1", "/", "revolution-solar", "/", "current-year">>,
      <<"/", "v1", "/", "solar-return", "/", "calculate">>,
      <<"/", "v1", "/", "solar-return", "/", "overlay">>,
      <<"/", "v1", "/", "solar-return", "/", "timeline">>,
      <<"/", "v1", "/", "synastry", "/", "compare">>,
      <<"/", "v1", "/", "system", "/", "endpoints">>,
      <<"/", "v1", "/", "system", "/", "health">>,
      <<"/", "v1", "/", "system", "/", "roadmap">>,
      <<"/", "v1", "/", "telemetry", "/", "event">>,
      <<"/", "v1", "/", "time", "/", "resolve-tz">>,
      <<"/", "v1", "/", "time", "/", "validate-local-datetime">>,
      <<"/", "v1", "/", "transits", "/", "events">>,
      <<"/", "v1", "/", "transits", "/", "live">>,
      <<"/", "v1", "/", "transits", "/", "next-days">>,
      <<"/", "v1", "/", "transits", "/", "personal-today">>
    }

ALLOWED_DYNAMIC_PREFIXES == { <<"/", "api", "/", "daily-analysis", "/">> }

isAllowedPath(path) ==
    \/ path \in ALLOWED_EXACT_PATHS
    \/ \E prefix \in ALLOWED_DYNAMIC_PREFIXES : StartsWith(path, prefix)

(***************************************************************************)
(* Payload normalizers                                                     *)
(***************************************************************************)
RENDER_DATA_DATE_FIELDS == <<"year", "month", "day", "hour", "minute", "second">>

\* `${prefix}${field}` with the default prefix "natal_" of DEFAULT_CONFIG.
NatalKey(field) ==
    CASE field = "year"   -> "natal_year"
      [] field = "month"  -> "natal_month"
      [] field = "day"    -> "natal_day"
      [] field = "hour"   -> "natal_hour"
      [] field = "minute" -> "natal_minute"
      [] OTHER            -> "natal_second"

\* Variant: the loop body without the removal of the prefixed field.
RenderFieldKeepAlias(payload, normalized, field) ==
    LET natalField     == NatalKey(field)
        hasRenderField == Get(normalized, field) # Undefined
        natalValue     == Get(payload, natalField)
    IN  IF ~hasRenderField /\ natalValue # Undefined
        THEN SetKey(normalized, field, natalValue)
        ELSE normalized

\* Variant: the loop body copying the prefixed value over a supplied field.
RenderFieldOverwrite(payload, normalized, field) ==
    LET natalField == NatalKey(field)
        natalValue == Get(payload, natalField)
        copied == IF natalValue # Undefined
                  THEN SetKey(normalized, field, natalValue)
                  ELSE normalized
    IN  IF Get(copied, natalField) # Undefined
        THEN DelKey(copied, natalField)
        ELSE copied

\* Variant: the prefixed field removed only when the unprefixed field was
\* there before the copy (the removal guarded by hasRenderField).
RenderFieldRemoveIfSupplied(payload, normalized, field) ==
    LET natalField     == NatalKey(field)
        hasRenderField == Get(normalized, field) # Undefined
        natalValue     == Get(payload, natalField)
    IN  IF ~hasRenderField /\ natalValue # Undefined
        THEN SetKey(normalized, field, natalValue)
        ELSE IF hasRenderField /\ Get(normalized, natalField) # Undefined
             THEN DelKey(normalized, natalField)
             ELSE normalized

\* One iteration of the loop over RENDER_DATA_DATE_FIELDS.
RenderField(payload, normalized, field) ==
    LET natalField     == NatalKey(field)
        hasRenderField == Get(normalized, field) # Undefined
        natalValue     == Get(payload, natalField)
        copied == IF ~hasRenderField /\ natalValue # Undefined
                  THEN SetKey(normalized, field, natalValue)
                  ELSE normalized
    IN  IF Get(copied, natalField) # Undefined
        THEN DelKey(copied, natalField)
        ELSE copied

RECURSIVE RenderLoop(_, _, _)
RenderLoop(payload, normalized, i) ==
    IF i > Len(RENDER_DATA_DATE_FIELDS) THEN normalized
    ELSE OnValue(LAMBDA next : RenderLoop(payload, next, i + 1),
                 RenderField(payload, normalized, RENDER_DATA_DATE_FIELDS[i]))

normalizeRenderDataPayload(payload) == RenderLoop(payload, Spread(payload), 1)

\* Variant: String(value) without the padding.
pad2Unpadded(value) == Digits(value)

\* String(value).padStart(2, "0")
pad2(value) ==
    LET s == Digits(value)
    IN  IF Len(s) >= 2 THEN s ELSE <<"0">> \o s

IsNumber(x) == x.t = "number"

\* Variant: a missing month or day defaulted to 1, as the missing minute
\* and second are defaulted to 0.
SynastryBirthDateDefaulting(normalized) ==
    LET year  == Get(normalized, "natal_year")
        month == Coalesce(Get(normalized, "natal_month"), Num(1))
        day   == Coalesce(Get(normalized, "natal_day"), Num(1))
    IN  IF /\ ~Truthy(Get(normalized, "birth_date"))
           /\ year # Undefined
           /\ IsNumber(year) /\ IsNumber(month) /\ IsNumber(day)
        THEN SetKey(normalized, "birth_date",
                    Str(Digits(year.v) \o <<"-">> \o pad2(month.v)
                        \o <<"-">> \o pad2(day.v)))
        ELSE normalized

SynastryBirthDate(normalized) ==
    LET year  == Get(normalized, "natal_year")
        month == Get(normalized, "natal_month")
        day   == Get(normalized, "natal_day")
    IN  IF /\ ~Truthy(Get(normalized, "birth_date"))
           /\ year # Undefined
           /\ IsNumber(year) /\ IsNumber(month) /\ IsNumber(day)
        THEN SetKey(normalized, "birth_date",
                    Str(Digits(year.v) \o <<"-">> \o pad2(month.v)
                        \o <<"-">> \o pad2(day.v)))
        ELSE normalized

SynastryBirthTime(normalized) ==
    LET hour   == Get(normalized, "natal_hour")
        minute == Coalesce(Get(normalized, "natal_minute"), Num(0))
        second == Coalesce(Get(normalized, "natal_second"), Num(0))
    IN  IF /\ ~Truthy(Get(normalized, "birth_time"))
           /\ hour # Undefined
           /\ IsNumber(hour) /\ IsNumber(minute) /\ IsNumber(second)
        THEN SetKey(normalized, "birth_time",
                    Str(pad2(hour.v) \o <<":">> \o pad2(minute.v)
                        \o <<":">> \o pad2(second.v)))
        ELSE normalized

normalizeSynastryPerson(person) ==
    SynastryBirthTime(SynastryBirthDate(Spread(person)))

\* Variant: the legacy key removed once its person is under the canonical
\* key, as the date-component normalizer removes its prefixed fields.
normalizeSynastryPayloadDropLegacy(payload) ==
    LET personA == Coalesce(Get(payload, "person_a"), Get(payload, "person1"))
        personB == Coalesce(Get(payload, "person_b"), Get(payload, "person2"))
        withA == IF Truthy(personA) /\ Get(Spread(payload), "person_a") = Undefined
                 THEN SetKey(Spread(payload), "person_a",
                             normalizeSynastryPerson(personA))
                 ELSE Spread(payload)
        withB == IF Truthy(personB) /\ Get(withA, "person_b") = Undefined
                 THEN SetKey(withA, "person_b", normalizeSynastryPerson(personB))
                 ELSE withA
    IN  DelKey(DelKey(withB, "person1"), "person2")

\* Variant: the persons normalized whether or not the canonical key is
\* already in the payload.
normalizeSynastryPayloadAlways(payload) ==
    LET personA == Coalesce(Get(payload, "person_a"), Get(payload, "person1"))
        personB == Coalesce(Get(payload, "person_b"), Get(payload, "person2"))
        withA == IF Truthy(personA)
                 THEN SetKey(Spread(payload), "person_a",
                             normalizeSynastryPerson(personA))
                 ELSE Spread(payload)
    IN  IF Truthy(personB)
        THEN SetKey(withA, "person_b", normalizeSynastryPerson(personB))
        ELSE withA

normalizeSynastryPayload(payload) ==
    LET personA == Coalesce(Get(payload, "person_a"), Get(payload, "person1"))
        personB == Coalesce(Get(payload, "person_b"), Get(payload, "person2"))
        withA == IF Truthy(personA) /\ Get(Spread(payload), "person_a") = Undefined
                 THEN SetKey(Spread(payload), "person_a",
                             normalizeSynastryPerson(personA))
                 ELSE Spread(payload)
    IN  IF Truthy(personB) /\ Get(withA, "person_b") = Undefined
        THEN SetKey(withA, "person_b", normalizeSynastryPerson(personB))
        ELSE withA

(***************************************************************************)
(* URL and URLSearchParams                                                 *)
(***************************************************************************)
\* The origin of ASTRO_API_URL and its host.
upstreamOrigin == "http://localhost:8000"
upstreamHost   == "localhost:8000"

\* application/x-www-form-urlencoded: the reserved characters of a name or
\* a value are escaped by toString() and restored by the parser.
EncodeTok(c) ==
    CASE c = "?" -> "%3F"
      [] c = "&" -> "%26"
      [] c = "=" -> "%3D"
      [] c = "/" -> "%2F"
      [] c = " " -> "+"
      [] OTHER   -> c

DecodeTok(c) ==
    CASE c = "%3F" -> "?"
      [] c = "%26" -> "&"
      [] c = "%3D" -> "="
      [] c = "%2F" -> "/"
      [] c = "+"   -> " "
      [] OTHER     -> c

Encode(s) == [i \in 1..Len(s) |-> EncodeTok(s[i])]
Decode(s) == [i \in 1..Len(s) |-> DecodeTok(s[i])]

\* One name=value piece of a query string: split at the first "=".
ParsePair(piece) ==
    LET i == IndexOf(piece, "=")
    IN  IF i = 0 THEN [k |-> Decode(piece), v |-> <<>>]
        ELSE [k |-> Decode(SubSeq(piece, 1, i - 1)),
              v |-> Decode(SubSeq(piece, i + 1, Len(piece)))]

RECURSIVE ParsePieces(_)
ParsePieces(pieces) ==
    IF pieces = <<>> THEN <<>>
    ELSE IF Head(pieces) = <<>> THEN ParsePieces(Tail(pieces))
    ELSE <<ParsePair(Head(pieces))>> \o ParsePieces(Tail(pieces))

\* new URLSearchParams(text): the list of (name, value) entries.
URLSearchParams(text) ==
    LET Entries(init) ==
            LET s == IF init # <<>> /\ Head(init) = "?" THEN Tail(init) ELSE init
            IN  ParsePieces(SplitAll(s, "&"))
    IN  OnValue(Entries, text)

\* params.has(name)
Has(params, name) == \E i \in 1..Len(params) : params[i].k = name

\* params.get(name): the first value
RECURSIVE GetParam(_, _)
GetParam(params, name) ==
    IF params = <<>> THEN <<>>
    ELSE IF Head(params).k = name THEN Head(params).v
    ELSE GetParam(Tail(params), name)

RECURSIVE DropName(_, _)
DropName(params, name) ==
    IF params = <<>> THEN <<>>
    ELSE IF Head(params).k = name THEN DropName(Tail(params), name)
    ELSE <<Head(params)>> \o DropName(Tail(params), name)

\* params.set(name, value): replaces the first entry of that name and drops
\* the others, or appends.
SetParam(params, name, value) ==
    IF Has(params, name)
    THEN LET i == CHOOSE j \in 1..Len(params) :
                      /\ params[j].k = name
                      /\ \A h \in 1..(j - 1) : params[h].k # name
         IN  SubSeq(params, 1, i - 1) \o <<[k |-> name, v |-> value]>>
             \o DropName(SubSeq(params, i + 1, Len(params)), name)
    ELSE Append(params, [k |-> name, v |-> value])

\* params.toString()
RECURSIVE ParamsToString(_)
ParamsToString(params) ==
    IF params = <<>> THEN <<>>
    ELSE Encode(Head(params).k) \o <<"=">> \o Encode(Head(params).v)
         \o (IF Len(params) > 1 THEN <<"&">> ELSE <<>>)
         \o ParamsToString(Tail(params))

IsDoubleDot(seg) == seg = <<"..">>
IsSingleDot(seg) == seg = <<".">>

\* The path state of the URL parser: ".." removes the last segment kept so
\* far, "." is skipped, and a dot segment in last position leaves an empty
\* last segment.
RECURSIVE RemoveDotSegments(_, _)
RemoveDotSegments(segs, kept) ==
    IF segs = <<>> THEN kept
    ELSE LET seg  == Head(segs)
             last == Len(segs) = 1
         IN  IF IsDoubleDot(seg)
             THEN LET shortened == IF kept = <<>> THEN kept
                                   ELSE SubSeq(kept, 1, Len(kept) - 1)
                  IN  RemoveDotSegments(Tail(segs),
                          IF last THEN Append(shortened, <<>>) ELSE shortened)
             ELSE IF IsSingleDot(seg)
             THEN RemoveDotSegments(Tail(segs),
                          IF last THEN Append(kept, <<>>) ELSE kept)
             ELSE RemoveDotSegments(Tail(segs), Append(kept, seg))

RECURSIVE JoinPath(_)
JoinPath(segs) ==
    IF segs = <<>> THEN <<>>
    ELSE <<"/">> \o Head(segs) \o JoinPath(Tail(segs))

\* pathname of a parsed URL whose path text is `path` (starting with "/").
ResolvePath(path) ==
    LET resolved == RemoveDotSegments(SplitAll(Tail(path), "/"), <<>>)
    IN  IF resolved = <<>> THEN <<"/">> ELSE JoinPath(resolved)

\* new URL(text) for an origin-less target or for origin + target:
\* pathname (dot segments resolved) and search (from the first "?").
ParseURL(target) ==
    LET Parsed(text) ==
            LET i == IndexOf(text, "?")
                pathText == IF i = 0 THEN text ELSE SubSeq(text, 1, i - 1)
                rest     == IF i = 0 THEN <<>> ELSE SubSeq(text, i + 1, Len(text))
            IN  [pathname |-> ResolvePath(pathText),
                 search   |-> IF rest = <<>> THEN <<>> ELSE <<"?">> \o rest]
    IN  OnValue(Parsed, target)

(***************************************************************************)
(* Headers                                                                 *)
(***************************************************************************)
\* headers.get(name) ?? ""
HeaderOr(headers, name) == IF name \in DOMAIN headers THEN headers[name] ELSE <<>>

\* headers.set(name, value)
SetHeader(headers, name, value) ==
    [n \in DOMAIN headers \cup {name} |-> IF n = name THEN value ELSE headers[n]]

(***************************************************************************)
(* Envelope resolution: the values the serve handler computes from the     *)
(* physical request r and the parsed body.                                 *)
(***************************************************************************)
\* (incomingBody ?? {}) as ProxyEnvelope
envelopeOf(body) == Coalesce(body, EmptyObj)

rawPathFromEnvelope(body) ==
    LET p == Get(envelopeOf(body), "path")
    IN  IF p.t = "string" /\ StartsWith(Trim(p.v), <<"/">>)
        THEN Str(Trim(p.v))
        ELSE Undefined

\* Variant: the envelope method trimmed but not upper-cased.
rawMethodAsSent(body) ==
    LET m == Get(envelopeOf(body), "method")
    IN  IF m.t = "string" /\ Len(Trim(m.v)) > 0
        THEN Str(Trim(m.v))
        ELSE Undefined

rawMethodFromEnvelope(body) ==
    LET m == Get(envelopeOf(body), "method")
    IN  IF m.t = "string" /\ Len(Trim(m.v)) > 0
        THEN Str(ToUpperCase(Trim(m.v)))
        ELSE Undefined

\* rawPathFromEnvelope ? rawPathFromEnvelope.split("?", 2) : [undefined, undefined]
envelopeSplit(body) ==
    LET raw == rawPathFromEnvelope(body)
    IN  IF Truthy(raw) THEN SplitLimit(raw.v, "?", 2) ELSE <<>>

envelopePathOnly(body) ==
    LET parts == envelopeSplit(body)
    IN  IF Len(parts) >= 1 THEN Str(parts[1]) ELSE Undefined

envelopeQueryString(body) ==
    LET parts == envelopeSplit(body)
    IN  IF Len(parts) >= 2 THEN Str(parts[2]) ELSE Undefined

\* url.pathname of new URL(req.url)
urlPathname(r) == ParseURL(r.target).pathname

\* url.search of new URL(req.url)
urlSearch(r) == ParseURL(r.target).search

\* Variant: the inbound URL path taken as the path to check and forward.
upstreamPathFromUrl(r, body) == urlPathname(r)

\* Variant: the envelope bare path taken also when it is "/".
upstreamPathAnyEnvelope(r, body) ==
    LET only == envelopePathOnly(body)
    IN  IF Truthy(only) THEN only.v ELSE urlPathname(r)

upstreamPath(r, body) ==
    LET Pick(only) ==
            IF Truthy(only) /\ only.v # <<"/">> THEN only.v ELSE urlPathname(r)
    IN  OnValue(Pick, envelopePathOnly(body))

\* Variant: the merge without the has() test, a later source overwriting.
RECURSIVE MergeEntriesOverwriting(_, _)
MergeEntriesOverwriting(params, entries) ==
    IF entries = <<>> THEN params
    ELSE MergeEntriesOverwriting(SetParam(params, Head(entries).k, Head(entries).v),
                                 Tail(entries))

\* for (const [k, v] of parsed.entries()) if (!queryParams.has(k)) queryParams.set(k, v)
RECURSIVE MergeEntries(_, _)
MergeEntries(params, entries) ==
    IF entries = <<>> THEN params
    ELSE LET e == Head(entries)
         IN  MergeEntries(IF ~Has(params, e.k) THEN SetParam(params, e.k, e.v)
                          ELSE params,
                          Tail(entries))

mergeEnvelopeQueryString(params, body) ==
    LET qs == envelopeQueryString(body)
    IN  IF Truthy(qs) THEN MergeEntries(params, URLSearchParams(qs.v)) ELSE params

\* Object.entries(o) as (name, String(value)) entries, null and undefined
\* values left out (the `continue` of the loop).  The keys of one object
\* are distinct, so the order of the entries does not change which value a
\* key gets.
RECURSIVE ObjectEntries(_, _)
ObjectEntries(o, keys) ==
    IF keys = {} THEN <<>>
    ELSE LET key == CHOOSE x \in keys : TRUE
             rest == ObjectEntries(o, keys \ {key})
         IN  IF Nullish(o.v[key]) THEN rest
             ELSE << [k |-> << key >>, v |-> ToStr(o.v[key])] >> \o rest

mergeEnvelopeQuery(params, body) ==
    LET q == Get(envelopeOf(body), "query")
    IN  IF Truthy(q) /\ IsObject(q)
        THEN MergeEntries(params, ObjectEntries(q, DOMAIN q.v))
        ELSE params

\* queryParams after both merges, from its value at the top of the handler
mergedQuery(params, body) ==
    mergeEnvelopeQuery(mergeEnvelopeQueryString(params, body), body)

targetMethod(r, body) ==
    Coalesce(rawMethodFromEnvelope(body), Str(ToUpperCase(r.method))).v

HasBody(method) == method # <<"GET">> /\ method # <<"HEAD">>

\* Variant: the payload without the `?? {}` default.
payloadOfNoDefault(body) ==
    LET env == envelopeOf(body)
    IN  IF /\ Truthy(rawPathFromEnvelope(body))
           /\ Truthy(Get(env, "body"))
           /\ IsObject(Get(env, "body"))
        THEN Get(env, "body")
        ELSE body

payloadOf(body) ==
    LET env == envelopeOf(body)
    IN  IF /\ Truthy(rawPathFromEnvelope(body))
           /\ Truthy(Get(env, "body"))
           /\ IsObject(Get(env, "body"))
        THEN Get(env, "body")
        ELSE Coalesce(body, EmptyObj)

RenderDataPath == <<"/", "v1", "/", "chart", "/", "render-data">>
SynastryPath   == <<"/", "v1", "/", "synastry", "/", "compare">>

\* Variant: the date-component normalizer chosen by a prefix test, for
\* every path under /v1/chart/.
normalizedPayloadByPrefix(path, payload) ==
    IF StartsWith(path, <<"/", "v1", "/", "chart", "/">>)
    THEN normalizeRenderDataPayload(payload)
    ELSE IF path = SynastryPath THEN normalizeSynastryPayload(payload)
    ELSE payload

normalizedPayload(path, payload) ==
    IF path = RenderDataPath THEN normalizeRenderDataPayload(payload)
    ELSE IF path = SynastryPath THEN normalizeSynastryPayload(payload)
    ELSE payload

NoBody == [kind |-> "none", value |-> Undefined]
JsonBody(x) == [kind |-> "json", value |-> x]

\* Variant: the inbound body passed on as it came when it was not parsed.
forwardBodyRaw(r, body) ==
    IF HasBody(targetMethod(r, body))
    THEN IF body = Undefined /\ r.body.kind # "none"
         THEN r.body
         ELSE JsonBody(normalizedPayload(upstreamPath(r, body), payloadOf(body)))
    ELSE NoBody

\* body = JSON.stringify(normalizedPayload), or undefined for GET and HEAD
forwardBody(r, body) ==
    IF HasBody(targetMethod(r, body))
    THEN JsonBody(normalizedPayload(upstreamPath(r, body), payloadOf(body)))
    ELSE NoBody

\* Variant: content-type set whether or not a body is sent.
forwardHeadersAlways(headers, r, body) ==
    SetHeader(headers, "content-type", <<"application/json">>)

forwardHeaders(headers, r, body) ==
    IF HasBody(targetMethod(r, body))
    THEN SetHeader(headers, "content-type", <<"application/json">>)
    ELSE headers

\* `${origin}${upstreamPath}${queryParams.toString() ? "?" + ... : ""}`
\* without the origin
fetchTarget(path, params) ==
    LET qs == ParamsToString(params)
    IN  path \o (IF qs # <<>> THEN <<"?">> \o qs ELSE <<>>)

\* The request fetch() sends: the URL is parsed again, so the path
\* requested is the resolved pathname of origin + upstreamPath.
fetchCall(h, r, body, params, headers) ==
    LET url == ParseURL(fetchTarget(upstreamPath(r, body), mergedQuery(params, body)))
    IN  [handler |-> h,
         origin  |-> upstreamOrigin,
         method  |-> targetMethod(r, body),
         path    |-> url.pathname,
         query   |-> URLSearchParams(url.search),
         headers |-> forwardHeaders(headers, r, body),
         body    |-> forwardBody(r, body)]

(***************************************************************************)
(* Inbound requests and upstream responses the model draws from            *)
(***************************************************************************)
PhysicalMethods == { <<"GET">>, <<"POST">> }

PhysicalTargets ==
    { <<"/">>,
      <<"/", "ignored", "?", "x", "=", "p">>,
      <<"/", "v1", "/", "chart", "/", "render-data", "?", "x", "=", "p", "&", "y", "=", "p">>,
      <<"/", "api", "/", "daily-analysis", "/", "d", "?", "y", "=", "p">>,
      <<"/", "api", "/", "daily-analysis", "/", "..", "/", "ignored">> }

PlainHeaders == "host" :> <<"gateway">>

JsonHeaders ==
    ("host" :> <<"gateway">>) @@ ("content-type" :> <<"application/json">>)

CharsetHeaders ==
    ("host" :> <<"gateway">>)
    @@ ("content-type" :> <<"application/json", ";", "charset=utf-8">>)
    @@ ("authorization" :> <<"Bearer", " ", "key">>)

TextHeaders ==
    ("host" :> <<"gateway">>) @@ ("content-type" :> <<"text/plain">>)

\* Values of the envelope's path field.
EnvPathValues ==
    { Undefined,
      Num(5),
      Str(<<"health">>),
      Str(<<"/">>),
      Str(<<"/", "?", "x", "=", "e">>),
      Str(<<" ", "/", "health", " ">>),
      Str(<<"/", "v1", "/", "chart", "/", "natal", "?", "x", "=", "e", "&", "b", "=", "e">>),
      Str(<<"/", "unlisted">>),
      Str(<<"/", "api", "/", "daily-analysis", "/", "d">>),
      Str(<<"/", "api", "/", "daily-analysis", "/", "..", "/", "..", "/", "v1", "/", "secret">>),
      Str(<<"/", "api", "/", "daily-analysis", "/", "a", "/", "..", "/", "b">>),
      Str(<<"/", "v1", "/", "chart", "/", "render-data">>),
      Str(<<"/", "v1", "/", "synastry", "/", "compare">>),
      Str(<<"/", "v1", "/", "solar-return", "/", "calculate">>),
      Str(<<"/", "health", "?", "a", "=", "e", "?", "y", "=", "e">>) }

\* Values of the envelope's method field.
EnvMethodValues ==
    { Undefined, Str(<<"post">>), Str(<<" ", "get", " ">>), Str(<<" ">>) }

PersonOne ==
    Obj(("natal_year" :> Num(1990)) @@ ("natal_month" :> Num(1))
        @@ ("natal_day" :> Num(2)) @@ ("natal_hour" :> Num(3))
        @@ ("natal_minute" :> Num(4)) @@ ("natal_second" :> Num(5)))

PersonB == Obj(("birth_date" :> Str(<<"2", "0", "0", "0", "-", "0", "1", "-", "0", "1">>))
               @@ ("natal_year" :> Num(1999)))

DataBody ==
    Obj(("natal_year" :> Num(1995)) @@ ("year" :> Num(2000))
        @@ ("natal_day" :> Num(7)) @@ ("lat" :> Num(10))
        @@ ("person1" :> PersonOne) @@ ("person_b" :> PersonB))

\* Values of the envelope's body field.
EnvBodyValues == { Undefined, DataBody, Null }

\* Values of the envelope's query field.
EnvQueryValues ==
    { Undefined,
      Str(<<"k", "=", "1">>),
      Obj(("x" :> Str(<<"q">>)) @@ ("b" :> Str(<<"q">>))
          @@ ("k" :> Num(7)) @@ ("n" :> Null)) }

\* Other top-level fields of the body (a flat payload).
FlatValues ==
    { NoKeys,
      ("natal_month" :> Num(11)) @@ ("hour" :> Null) @@ ("natal_hour" :> Num(9))
      @@ ("person2" :> PersonOne) }

Opt(key, x) == IF x = Undefined THEN NoKeys ELSE key :> x

JsonObjects ==
    { Obj(Opt("path", p) @@ Opt("method", m) @@ Opt("body", b)
          @@ Opt("query", q) @@ flat) :
        p \in EnvPathValues, m \in EnvMethodValues, b \in EnvBodyValues,
        q \in EnvQueryValues, flat \in FlatValues }

\* The body text of the request: absent, not JSON, or the text of a value.
Malformed == [kind |-> "malformed", value |-> Undefined]

SampleBodies ==
    { NoBody, Malformed, JsonBody(Null), JsonBody(Num(5)), JsonBody(DataBody),
      JsonBody(Obj(("path" :> Str(<<"/", "health">>))
                   @@ ("method" :> Str(<<"post">>)))) }

Request(m, t, hs, b) == [method |-> m, target |-> t, headers |-> hs, body |-> b]

Requests ==
    { Request(m, t, JsonHeaders, JsonBody(o)) :
        m \in PhysicalMethods, t \in PhysicalTargets, o \in JsonObjects }
    \cup
    { Request(m, t, hs, b) :
        m \in PhysicalMethods, t \in PhysicalTargets,
        hs \in {PlainHeaders, JsonHeaders, CharsetHeaders, TextHeaders},
        b \in SampleBodies }

UpstreamResponses ==
    { [status  |-> 200,
       headers |-> "content-type" :> <<"application/json">>,
       body    |-> [kind |-> "stream", value |-> Str(<<"result">>)]],
      [status  |-> 422,
       headers |-> "content-type" :> <<"application/json">>,
       body    |-> [kind |-> "stream", value |-> Str(<<"validation-error">>)]],
      [status  |-> 503,
       headers |-> "retry-after" :> <<"5">>,
       body    |-> NoBody] }

(***************************************************************************)
(* State                                                                   *)
(***************************************************************************)
Handlers == {"h1", "h2"}

VARIABLES
    req,             \* the inbound request of each handler invocation
    pc,              \* where the invocation is
    incomingBody,    \* const incomingBody = await readJsonSafely(req)
    queryParams,     \* const queryParams
    requestHeaders,  \* const requestHeaders
    calls,           \* the requests fetch() has sent upstream, in order
    response,        \* the Response the caller receives
    upstream,        \* how the call of fetch() ended
    inbound,         \* the caller's connection: "open" or "closed"
    nIn,             \* normalizer under test: its argument
    nOut,            \* its result
    nAgain,          \* the result of applying it to nOut
    nPc              \* which normalizer was applied

hvars == <<req, pc, incomingBody, queryParams, requestHeaders, calls, response,
           upstream, inbound>>
nvars == <<nIn, nOut, nAgain, nPc>>
vars  == <<req, pc, incomingBody, queryParams, requestHeaders, calls, response,
           upstream, inbound, nIn, nOut, nAgain, nPc>>

NoRequest  == Request(<<"GET">>, <<"/">>, PlainHeaders, NoBody)
NoResponse == [sent |-> FALSE, status |-> 0, headers |-> NoKeys, body |-> NoBody]

RejectDetail == <<"Path não permitido">>

RejectionResponse(path) ==
    [sent    |-> TRUE,
     status  |-> 400,
     headers |-> "content-type" :> <<"application/json">>,
     body    |-> JsonBody(Obj(("detail" :> Str(RejectDetail))
                              @@ ("path" :> Str(path))))]

\* The outcome of the call of fetch(): not made yet, a response of the
\* upstream, or a rejection (the upstream could not be reached).
NotCalled == [outcome |-> "none", status |-> 0, headers |-> NoKeys, body |-> NoBody]
Replied(up) ==
    [outcome |-> "response", status |-> up.status, headers |-> up.headers,
     body |-> up.body]
Unreachable ==
    [outcome |-> "failed", status |-> 0, headers |-> NoKeys, body |-> NoBody]

\* The Response of the server's default error handler, which answers for
\* a handler that threw.
InternalServerError ==
    [sent    |-> TRUE,
     status  |-> 500,
     headers |-> "content-type" :> <<"text/plain;charset=UTF-8">>,
     body    |-> [kind |-> "text", value |-> Str(<<"Internal Server Error">>)]]

\* Variant: an upstream error status answered with a 502 of the gateway.
RelayedResponseMasking(up) ==
    IF up.status >= 500
    THEN [sent |-> TRUE, status |-> 502, headers |-> NoKeys, body |-> NoBody]
    ELSE [sent |-> TRUE, status |-> up.status, headers |-> up.headers,
          body |-> up.body]

\* new Response(upstreamResponse.body, { status, headers })
RelayedResponse(up) ==
    [sent |-> TRUE, status |-> up.status, headers |-> up.headers, body |-> up.body]

(***************************************************************************)
(* The serve handler                                                       *)
(***************************************************************************)
\* Lines 220-224 and the content-type test of readJsonSafely: a request
\* without a JSON content type is never read.
Start(h) ==
    /\ pc[h] = "accepted"
    /\ queryParams' = [queryParams EXCEPT ![h] = URLSearchParams(urlSearch(req[h]))]
    /\ requestHeaders' =
           [requestHeaders EXCEPT ![h] = SetHeader(req[h].headers, "host", <<upstreamHost>>)]
    /\ IF Includes(HeaderOr(req[h].headers, "content-type"), "application/json")
       THEN /\ pc' = [pc EXCEPT ![h] = "reading"]
            /\ UNCHANGED incomingBody
       ELSE /\ pc' = [pc EXCEPT ![h] = "parsed"]
            /\ incomingBody' = [incomingBody EXCEPT ![h] = Undefined]
    /\ UNCHANGED <<req, calls, response, upstream, inbound, nvars>>

\* await req.json() inside try/catch: the parsed value, or undefined when
\* the body is missing or is not JSON.
readJsonResult(r) == IF r.body.kind = "json" THEN r.body.value ELSE Undefined

ReadJson(h) ==
    /\ pc[h] = "reading"
    /\ incomingBody' = [incomingBody EXCEPT ![h] = readJsonResult(req[h])]
    /\ pc' = [pc EXCEPT ![h] = "parsed"]
    /\ UNCHANGED <<req, queryParams, requestHeaders, calls, response, upstream,
                   inbound, nvars>>

\* Variant: the allowlist branch without its return, the request going on
\* to fetch().
RejectFallsThrough(h) ==
    /\ pc[h] = "parsed"
    /\ ~isAllowedPath(upstreamPath(req[h], incomingBody[h]))
    /\ calls' = Append(calls, fetchCall(h, req[h], incomingBody[h],
                                        queryParams[h], requestHeaders[h]))
    /\ pc' = [pc EXCEPT ![h] = "fetching"]
    /\ UNCHANGED <<req, incomingBody, queryParams, requestHeaders, response,
                   upstream, inbound, nvars>>

\* Lines 227-252 when the allowlist check fails.
Reject(h) ==
    /\ pc[h] = "parsed"
    /\ ~isAllowedPath(upstreamPath(req[h], incomingBody[h]))
    /\ response' = [response EXCEPT
                      ![h] = RejectionResponse(upstreamPath(req[h], incomingBody[h]))]
    /\ pc' = [pc EXCEPT ![h] = "done"]
    /\ UNCHANGED <<req, incomingBody, queryParams, requestHeaders, calls,
                   upstream, inbound, nvars>>

\* Variant: the parsed body kept in a variable of the module, which a
\* second invocation overwrites: the body used is the other request's once
\* that one has been parsed.
ForwardSharedBody(h) ==
    LET others == { g \in Handlers \ {h} : pc[g] \in {"parsed", "fetching", "done", "threw"} }
        shared == IF others = {} THEN incomingBody[h]
                  ELSE incomingBody[CHOOSE g \in others : TRUE]
    IN  /\ pc[h] = "parsed"
        /\ isAllowedPath(upstreamPath(req[h], incomingBody[h]))
        /\ queryParams' =
               [queryParams EXCEPT ![h] = mergedQuery(queryParams[h], shared)]
        /\ requestHeaders' =
               [requestHeaders EXCEPT
                  ![h] = forwardHeaders(requestHeaders[h], req[h], shared)]
        /\ calls' = Append(calls, fetchCall(h, req[h], shared,
                                            queryParams[h], requestHeaders[h]))
        /\ pc' = [pc EXCEPT ![h] = "fetching"]
        /\ UNCHANGED <<req, incomingBody, response, upstream, inbound, nvars>>

\* Lines 227-303 when the allowlist check passes: the query merges, the
\* method, the body, and the call of fetch().
Forward(h) ==
    /\ pc[h] = "parsed"
    /\ isAllowedPath(upstreamPath(req[h], incomingBody[h]))
    /\ queryParams' =
           [queryParams EXCEPT ![h] = mergedQuery(queryParams[h], incomingBody[h])]
    /\ requestHeaders' =
           [requestHeaders EXCEPT
              ![h] = forwardHeaders(requestHeaders[h], req[h], incomingBody[h])]
    /\ calls' = Append(calls, fetchCall(h, req[h], incomingBody[h],
                                        queryParams[h], requestHeaders[h]))
    /\ pc' = [pc EXCEPT ![h] = "fetching"]
    /\ UNCHANGED <<req, incomingBody, response, upstream, inbound, nvars>>

\* fetch() resolves; lines 305-308 relay the upstream response.
UpstreamRespond(h) ==
    /\ pc[h] = "fetching"
    /\ \E up \in UpstreamResponses :
           /\ upstream' = [upstream EXCEPT ![h] = Replied(up)]
           /\ response' = [response EXCEPT ![h] = RelayedResponse(up)]
    /\ pc' = [pc EXCEPT ![h] = "done"]
    /\ UNCHANGED <<req, incomingBody, queryParams, requestHeaders, calls,
                   inbound, nvars>>

\* Variant: a rejected fetch() called once more.
UpstreamFailRetries(h) ==
    /\ pc[h] = "fetching"
    /\ upstream' = [upstream EXCEPT ![h] = Unreachable]
    /\ calls' = Append(calls, calls[CHOOSE i \in 1..Len(calls) : calls[i].handler = h])
    /\ UNCHANGED <<req, pc, incomingBody, queryParams, requestHeaders, response,
                   inbound, nvars>>

\* fetch() rejects (the upstream cannot be reached): the await throws and
\* the handler returns no Response.
UpstreamFail(h) ==
    /\ pc[h] = "fetching"
    /\ upstream' = [upstream EXCEPT ![h] = Unreachable]
    /\ pc' = [pc EXCEPT ![h] = "threw"]
    /\ UNCHANGED <<req, incomingBody, queryParams, requestHeaders, calls,
                   response, inbound, nvars>>

\* Variant: the handler giving up on the upstream call when the caller has
\* closed its connection, returning without a Response.
InboundCloseAbandons(h) ==
    /\ pc[h] = "fetching"
    /\ inbound[h] = "open"
    /\ inbound' = [inbound EXCEPT ![h] = "closed"]
    /\ pc' = [pc EXCEPT ![h] = "done"]
    /\ UNCHANGED <<req, incomingBody, queryParams, requestHeaders, calls,
                   response, upstream, nvars>>

\* The caller closes its connection while fetch() is in flight.  The call
\* of fetch() is given no signal (lines 294-303), so nothing else changes:
\* the call goes on and can still resolve or reject.
InboundClose(h) ==
    /\ pc[h] = "fetching"
    /\ inbound[h] = "open"
    /\ inbound' = [inbound EXCEPT ![h] = "closed"]
    /\ UNCHANGED <<req, pc, incomingBody, queryParams, requestHeaders, calls,
                   response, upstream, nvars>>

\* Variant: the error of the handler ends the request with no Response.
ServeOnErrorSilent(h) ==
    /\ pc[h] = "threw"
    /\ pc' = [pc EXCEPT ![h] = "done"]
    /\ UNCHANGED <<req, incomingBody, queryParams, requestHeaders, calls,
                   response, upstream, inbound, nvars>>

\* serve() catches what the handler threw and answers with the Response
\* of its default error handler.
ServeOnError(h) ==
    /\ pc[h] = "threw"
    /\ response' = [response EXCEPT ![h] = InternalServerError]
    /\ pc' = [pc EXCEPT ![h] = "done"]
    /\ UNCHANGED <<req, incomingBody, queryParams, requestHeaders, calls,
                   upstream, inbound, nvars>>

(***************************************************************************)
(* The normalizers on their own                                            *)
(***************************************************************************)
MaxKeys == 3

DateKeys ==
    { "year", "month", "day", "hour", "minute", "second",
      "natal_year", "natal_month", "natal_day",
      "natal_hour", "natal_minute", "natal_second", "lat" }

DateValues == { Null, Num(1995), Num(2000) }

\* nIn is a payload with at most MaxKeys of the keys above.
IsRenderPayload ==
    \E ks \in SUBSET DateKeys :
        /\ Cardinality(ks) <= MaxKeys
        /\ \E f \in [ks -> DateValues] : nIn = Obj(f)

\* The natal_* date components of a person: none, all three, one missing,
\* one that is not a number.
DateParts ==
    { NoKeys,
      ("natal_year" :> Num(1990)) @@ ("natal_month" :> Num(1)) @@ ("natal_day" :> Num(2)),
      ("natal_year" :> Num(1985)) @@ ("natal_month" :> Num(12)) @@ ("natal_day" :> Num(31)),
      ("natal_year" :> Num(987)) @@ ("natal_month" :> Num(6)) @@ ("natal_day" :> Num(15)),
      ("natal_year" :> Num(1990)) @@ ("natal_month" :> Num(1)),
      ("natal_year" :> Num(1990)) @@ ("natal_day" :> Num(2)),
      ("natal_month" :> Num(1)) @@ ("natal_day" :> Num(2)),
      ("natal_year" :> Num(1990)) @@ ("natal_month" :> Str(<<"0", "1">>))
          @@ ("natal_day" :> Num(2)) }

\* The natal_* time components of a person.
TimeParts ==
    { NoKeys,
      ("natal_hour" :> Num(3)) @@ ("natal_minute" :> Num(4)) @@ ("natal_second" :> Num(5)),
      ("natal_hour" :> Num(0)) @@ ("natal_minute" :> Num(0)) @@ ("natal_second" :> Num(0)),
      ("natal_hour" :> Num(23)) @@ ("natal_minute" :> Null) @@ ("natal_second" :> Num(59)),
      "natal_hour" :> Num(3),
      ("natal_hour" :> Num(3)) @@ ("natal_second" :> Num(5)),
      ("natal_minute" :> Num(4)) @@ ("natal_second" :> Num(5)),
      ("natal_hour" :> Num(3)) @@ ("natal_minute" :> Str(<<"0", "4">>))
          @@ ("natal_second" :> Num(5)) }

BirthDates ==
    { NoKeys,
      "birth_date" :> Str(<<"2", "0", "0", "0", "-", "0", "1", "-", "0", "1">>),
      "birth_date" :> Str(<<>>),
      "birth_date" :> Null }

BirthTimes ==
    { NoKeys,
      "birth_time" :> Str(<<"1", "0", ":", "0", "0", ":", "0", "0">>),
      "birth_time" :> Null }

Persons ==
    { Obj(d @@ bd @@ t @@ bt) :
        d \in DateParts, bd \in BirthDates, t \in TimeParts, bt \in BirthTimes }

\* One person of a payload under its canonical key, its legacy key or both.
PersonSlots(canonical, legacy, person) ==
    { legacy :> person,
      canonical :> person,
      (canonical :> PersonB) @@ (legacy :> person),
      (canonical :> person) @@ (legacy :> PersonOne),
      (canonical :> Null) @@ (legacy :> person) }

\* The other person: absent, or a fixed value.
FixedSlots(canonical, legacy) ==
    { NoKeys,
      legacy :> PersonOne,
      canonical :> PersonB,
      legacy :> Num(5),
      legacy :> Null }

\* nIn is a payload of two persons, one of them any person of Persons.
IsSynastryPayload ==
    \E person \in Persons :
        \/ \E a \in PersonSlots("person_a", "person1", person) :
               \E b \in FixedSlots("person_b", "person2") : nIn = Obj(a @@ b)
        \/ \E a \in FixedSlots("person_a", "person1") :
               \E b \in PersonSlots("person_b", "person2", person) : nIn = Obj(a @@ b)

ApplyRenderData ==
    /\ nPc = "input"
    /\ nOut' = normalizeRenderDataPayload(nIn)
    /\ nPc' = "render-data"
    /\ UNCHANGED <<nIn, nAgain, hvars>>

\* Variant: the normalizer working on the payload itself, not on a copy.
ApplySynastryInPlace ==
    /\ nPc = "input"
    /\ nOut' = normalizeSynastryPayload(nIn)
    /\ nIn' = normalizeSynastryPayload(nIn)
    /\ nPc' = "synastry"
    /\ UNCHANGED <<nAgain, hvars>>

ApplySynastry ==
    /\ nPc = "input"
    /\ nOut' = normalizeSynastryPayload(nIn)
    /\ nPc' = "synastry"
    /\ UNCHANGED <<nIn, nAgain, hvars>>

\* The same normalizer applied to its own result.
ReapplyRenderData ==
    /\ nPc = "render-data"
    /\ nAgain' = normalizeRenderDataPayload(nOut)
    /\ nPc' = "render-data-twice"
    /\ UNCHANGED <<nIn, nOut, hvars>>

ReapplySynastry ==
    /\ nPc = "synastry"
    /\ nAgain' = normalizeSynastryPayload(nOut)
    /\ nPc' = "synastry-twice"
    /\ UNCHANGED <<nIn, nOut, hvars>>

(***************************************************************************)
(* Specifications                                                          *)
(***************************************************************************)
HandlersIdle ==
    /\ req = [h \in Handlers |-> NoRequest]
    /\ pc = [h \in Handlers |-> "idle"]
    /\ incomingBody = [h \in Handlers |-> Undefined]
    /\ queryParams = [h \in Handlers |-> <<>>]
    /\ requestHeaders = [h \in Handlers |-> NoKeys]
    /\ calls = <<>>
    /\ response = [h \in Handlers |-> NoResponse]
    /\ upstream = [h \in Handlers |-> NotCalled]
    /\ inbound = [h \in Handlers |-> "open"]

NormalizerOff ==
    nIn = EmptyObj /\ nOut = EmptyObj /\ nAgain = EmptyObj /\ nPc = "off"

\* One invocation of the handler, on any request of Requests.
Init ==
    /\ \E r \in Requests : req = [h \in Handlers |-> IF h = "h1" THEN r ELSE NoRequest]
    /\ pc = [h \in Handlers |-> IF h = "h1" THEN "accepted" ELSE "idle"]
    /\ incomingBody = [h \in Handlers |-> Undefined]
    /\ queryParams = [h \in Handlers |-> <<>>]
    /\ requestHeaders = [h \in Handlers |-> NoKeys]
    /\ calls = <<>>
    /\ response = [h \in Handlers |-> NoResponse]
    /\ upstream = [h \in Handlers |-> NotCalled]
    /\ inbound = [h \in Handlers |-> "open"]
    /\ NormalizerOff

Next ==
    \E h \in Handlers :
        \/ Start(h)
        \/ ReadJson(h)
        \/ Reject(h)
        \/ Forward(h)
        \/ UpstreamRespond(h)
        \/ UpstreamFail(h)
        \/ ServeOnError(h)
        \/ InboundClose(h)

Spec == Init /\ [][Next]_vars

\* serve() awaits the handler inside try/catch: once the handler has
\* thrown, the catch continuation is ready and the event loop runs it.
\* Whether and when the upstream answers is left open.
Fairness == \A h \in Handlers : WF_vars(ServeOnError(h))

FairSpec == Spec /\ Fairness

\* Two invocations of the handler at once, each on a request of a small
\* set, their steps interleaved in every order.
ConcurrentRequests ==
    { Request(<<"GET">>, <<"/">>, PlainHeaders, NoBody),
      Request(<<"GET">>, <<"/", "ignored", "?", "x", "=", "p">>, PlainHeaders, NoBody),
      Request(<<"POST">>, <<"/", "ignored", "?", "x", "=", "p">>, JsonHeaders,
              JsonBody(Obj(("path" :> Str(<<"/", "health">>))
                           @@ ("method" :> Str(<<"post">>))))),
      Request(<<"POST">>,
              <<"/", "v1", "/", "chart", "/", "render-data", "?", "x", "=", "p", "&", "y", "=", "p">>,
              JsonHeaders, JsonBody(DataBody)),
      Request(<<"POST">>, <<"/", "api", "/", "daily-analysis", "/", "d", "?", "y", "=", "p">>,
              CharsetHeaders, Malformed) }

InitConc ==
    /\ req \in [Handlers -> ConcurrentRequests]
    /\ pc = [h \in Handlers |-> "accepted"]
    /\ incomingBody = [h \in Handlers |-> Undefined]
    /\ queryParams = [h \in Handlers |-> <<>>]
    /\ requestHeaders = [h \in Handlers |-> NoKeys]
    /\ calls = <<>>
    /\ response = [h \in Handlers |-> NoResponse]
    /\ upstream = [h \in Handlers |-> NotCalled]
    /\ inbound = [h \in Handlers |-> "open"]
    /\ NormalizerOff

SpecConc == InitConc /\ [][Next]_vars

\* fetch() settles: it resolves or it rejects.
UpstreamSettles(h) == UpstreamRespond(h) \/ UpstreamFail(h)

\* The runtime runs every step of an invocation that can run: the
\* synchronous steps, the continuation after the body has been read, the
\* server's error handler; and the upstream call settles.
LiveFairness ==
    \A h \in Handlers :
        /\ WF_vars(Start(h))
        /\ WF_vars(ReadJson(h))
        /\ WF_vars(Reject(h))
        /\ WF_vars(Forward(h))
        /\ WF_vars(ServeOnError(h))
        /\ WF_vars(UpstreamSettles(h))

\* The requests of the concurrent set that take each way through the
\* handler once: forwarded without a body, rejected, and read as JSON and
\* forwarded.
LiveRequests ==
    { r \in ConcurrentRequests : r.body.kind = "none" \/ r.body = JsonBody(DataBody) }

InitLive == InitConc /\ \A h \in Handlers : req[h] \in LiveRequests

LiveSpec == InitLive /\ [][Next]_vars /\ LiveFairness

\* A normalizer applied to any payload of its input set.
InitNorm ==
    /\ HandlersIdle
    /\ IsRenderPayload \/ IsSynastryPayload
    /\ nOut = EmptyObj
    /\ nAgain = EmptyObj
    /\ nPc = "input"

NextNorm ==
    \/ ApplyRenderData
    \/ ApplySynastry
    \/ ReapplyRenderData
    \/ ReapplySynastry

SpecNorm == InitNorm /\ [][NextNorm]_vars

(***************************************************************************)
(* Properties                                                              *)
(***************************************************************************)
\* The body has been read: the effective request is determined.
Resolved(h) == pc[h] \in {"parsed", "fetching", "done", "threw"}

\* The handler is past the allowlist check.
Decided(h) == pc[h] \in {"fetching", "done", "threw"}

effectivePath(h)   == upstreamPath(req[h], incomingBody[h])
effectiveMethod(h) == targetMethod(req[h], incomingBody[h])

CallsOf(h) == { i \in 1..Len(calls) : calls[i].handler = h }

\* The name/value pairs of a parameter list, first value of each name.
ParamNames(params) == { params[i].k : i \in 1..Len(params) }
ParamMap(params) == [name \in ParamNames(params) |-> GetParam(params, name)]

\* C1: a request whose effective path is neither a registered exact path
\* nor under a registered prefix is answered 400 with the JSON body
\* {detail, path}, path being the rejected effective path, and no upstream
\* call is made for it.
C1_RejectedWith400AndNoCall ==
    \A h \in Handlers :
        (Resolved(h) /\ ~isAllowedPath(effectivePath(h))) =>
            /\ CallsOf(h) = {}
            /\ pc[h] \in {"parsed", "done"}
            /\ pc[h] = "done" =>
                  /\ response[h].sent
                  /\ response[h].status = 400
                  /\ response[h].body.kind = "json"
                  /\ IsObject(response[h].body.value)
                  /\ DOMAIN response[h].body.value.v = {"detail", "path"}
                  /\ response[h].body.value.v["path"] = Str(effectivePath(h))

C1_Witness ==
    \E h \in Handlers :
        /\ pc[h] = "done"
        /\ effectivePath(h) = <<"/", "unlisted">>
        /\ response[h].status = 400
        /\ CallsOf(h) = {}

\* C2: the resource path of every URL requested upstream is a path for
\* which isAllowedPath is true, and the destination is the upstream origin.
C2_ForwardedPathAllowed ==
    \A i \in 1..Len(calls) :
        /\ calls[i].origin = upstreamOrigin
        /\ isAllowedPath(calls[i].path)

\* The bare path of the envelope, when the body carries one.
Enveloped(h) == Truthy(rawPathFromEnvelope(incomingBody[h]))
envelopeBarePath(h) == envelopePathOnly(incomingBody[h]).v

Forwarded(h) == Decided(h) /\ CallsOf(h) # {}
Rejected(h)  == pc[h] = "done" /\ CallsOf(h) = {} /\ response[h].status = 400

\* C3 as stated: an allowlisted envelope path is forwarded whatever the
\* inbound URL path, and an envelope bare path that is not allowlisted is
\* rejected whatever the inbound URL path.
C3_AsStated ==
    \A h \in Handlers :
        (Decided(h) /\ Enveloped(h)) =>
            /\ (/\ ~isAllowedPath(urlPathname(req[h]))
                /\ isAllowedPath(envelopeBarePath(h))) => Forwarded(h)
            /\ (/\ isAllowedPath(urlPathname(req[h]))
                /\ envelopeBarePath(h) # <<"/">>
                /\ ~isAllowedPath(envelopeBarePath(h))) => Rejected(h)

\* C3, amended: the allowlist check is applied to the effective path only.
\* An envelope bare path other than "/" that is allowlisted is forwarded
\* although the inbound URL path is not allowlisted, and an envelope bare
\* path that is not allowlisted is rejected although the inbound URL path
\* is allowlisted.  (An envelope bare path "/" leaves the inbound URL path
\* as the effective path.)
C3_CheckOnEffectivePath ==
    \A h \in Handlers :
        (Decided(h) /\ Enveloped(h)) =>
            /\ (/\ ~isAllowedPath(urlPathname(req[h]))
                /\ envelopeBarePath(h) # <<"/">>
                /\ isAllowedPath(envelopeBarePath(h))) => Forwarded(h)
            /\ (/\ isAllowedPath(urlPathname(req[h]))
                /\ ~isAllowedPath(envelopeBarePath(h))) => Rejected(h)

C3_Witness ==
    \E h \in Handlers :
        /\ Forwarded(h)
        /\ Enveloped(h)
        /\ ~isAllowedPath(urlPathname(req[h]))
        /\ envelopeBarePath(h) = <<"/", "v1", "/", "chart", "/", "natal">>

\* C4: the upstream request of an allowlisted effective path has the
\* resolved effective method, the effective path and the merged query.
C4_UpstreamEqualsEffective ==
    \A i \in 1..Len(calls) :
        LET h == calls[i].handler
        IN  /\ calls[i].method = effectiveMethod(h)
            /\ calls[i].path = effectivePath(h)
            /\ calls[i].query = queryParams[h]

\* The envelope of the claims about resolution: a path whose text P?Q
\* (surrounding blanks apart) starts with "/" and has at most one "?", a
\* method that is not blank, a body object and a query object.
CountOf(s, tok) == Cardinality({ i \in 1..Len(s) : s[i] = tok })

envelopePathText(h) == Trim(Get(incomingBody[h], "path").v)

FullEnvelope(h) ==
    LET e == incomingBody[h]
    IN  /\ Resolved(h)
        /\ Get(e, "path").t = "string"
        /\ StartsWith(envelopePathText(h), <<"/">>)
        /\ CountOf(envelopePathText(h), "?") <= 1
        /\ Get(e, "method").t = "string"
        /\ Trim(Get(e, "method").v) # <<>>
        /\ IsObject(Get(e, "body"))
        /\ IsObject(Get(e, "query"))

\* P and Q of the path text P?Q.
BeforeMark(text) ==
    IF IndexOf(text, "?") = 0 THEN text ELSE SubSeq(text, 1, IndexOf(text, "?") - 1)
AfterMark(text) ==
    IF IndexOf(text, "?") = 0 THEN <<>>
    ELSE SubSeq(text, IndexOf(text, "?") + 1, Len(text))

physicalQuery(h) == URLSearchParams(urlSearch(req[h]))

\* The merge of three parameter lists, a key taking its value from the
\* first list that has it.
MergeByPriority(first, second, third) ==
    [name \in ParamNames(first) \cup ParamNames(second) \cup ParamNames(third) |->
        IF Has(first, name) THEN GetParam(first, name)
        ELSE IF Has(second, name) THEN GetParam(second, name)
        ELSE GetParam(third, name)]

ExpectedQuery(h) ==
    LET e == incomingBody[h]
    IN  MergeByPriority(physicalQuery(h),
                        URLSearchParams(AfterMark(envelopePathText(h))),
                        ObjectEntries(Get(e, "query"), DOMAIN Get(e, "query").v))

resolvedQuery(h) == ParamMap(mergedQuery(physicalQuery(h), incomingBody[h]))

\* What a full envelope resolves to, the effective path apart.
EnvelopeResolvesRest(h) ==
    LET e == incomingBody[h]
    IN  /\ effectiveMethod(h) = ToUpperCase(Trim(Get(e, "method").v))
        /\ payloadOf(e) = Get(e, "body")
        /\ resolvedQuery(h) = ExpectedQuery(h)
        /\ \A i \in CallsOf(h) :
              /\ calls[i].method = ToUpperCase(Trim(Get(e, "method").v))
              /\ ParamMap(calls[i].query) = ExpectedQuery(h)
              /\ HasBody(calls[i].method) =>
                    calls[i].body =
                        JsonBody(normalizedPayload(effectivePath(h), Get(e, "body")))

\* An enveloped request without a body object: the whole parsed body is
\* the payload.
WholeBodyIsPayload(h) ==
    (Resolved(h) /\ Enveloped(h) /\ ~IsObject(Get(incomingBody[h], "body"))) =>
        payloadOf(incomingBody[h]) = incomingBody[h]

envelopeSuffixQuery(h) ==
    LET qs == envelopeQueryString(incomingBody[h])
    IN  IF Truthy(qs) THEN URLSearchParams(qs.v) ELSE <<>>

envelopeObjectQuery(h) ==
    LET q == Get(envelopeOf(incomingBody[h]), "query")
    IN  IF IsObject(q) THEN ObjectEntries(q, DOMAIN q.v) ELSE <<>>

C7_BodyFoldedIntoQuery ==
    \A i \in 1..Len(calls) :
        LET h == calls[i].handler
            o == incomingBody[h]
        IN  ~HasBody(calls[i].method) =>
                /\ calls[i].body = NoBody
                /\ IsObject(o) =>
                      \A key \in DOMAIN o.v :
                          ~Nullish(o.v[key]) =>
                              /\ Has(calls[i].query, <<key>>)
                              /\ (/\ ~Has(physicalQuery(h), <<key>>)
                                  /\ ~Has(envelopeSuffixQuery(h), <<key>>)
                                  /\ ~Has(envelopeObjectQuery(h), <<key>>)) =>
                                     GetParam(calls[i].query, <<key>>) = ToStr(o.v[key])

\* C8: a body that is not JSON does not stop the handler: it is treated as
\* no parsed body (no envelope; the physical method, path and query are
\* the effective ones), and an upstream request with a method other than
\* GET and HEAD carries the empty object.
C8_MalformedBodyIsNoBody ==
    \A h \in Handlers :
        (req[h].body.kind = "malformed" /\ Resolved(h)) =>
            /\ incomingBody[h] = Undefined
            /\ ~Enveloped(h)
            /\ effectiveMethod(h) = req[h].method
            /\ effectivePath(h) = urlPathname(req[h])
            /\ resolvedQuery(h) = ParamMap(physicalQuery(h))
            /\ (pc[h] = "threw" => CallsOf(h) # {})
            /\ \A i \in CallsOf(h) :
                  /\ calls[i].method = req[h].method
                  /\ calls[i].path = urlPathname(req[h])
                  /\ calls[i].query = physicalQuery(h)
                  /\ HasBody(calls[i].method) => calls[i].body = JsonBody(EmptyObj)

C8_Witness ==
    \E h \in Handlers :
        /\ req[h].body.kind = "malformed"
        /\ Includes(HeaderOr(req[h].headers, "content-type"), "application/json")
        /\ req[h].method = <<"POST">>
        /\ pc[h] = "done"
        /\ \E i \in CallsOf(h) : calls[i].body = JsonBody(EmptyObj)

DateFields == { RENDER_DATA_DATE_FIELDS[i] : i \in 1..Len(RENDER_DATA_DATE_FIELDS) }

\* C9: date-component normalizer: a field f of {year, ..., second} absent
\* from the body whose natal_f is present has the value of natal_f in the
\* output, and the output has no natal_f key for any of the six fields.
C9_AliasCopiedAndRemoved ==
    nPc = "render-data" =>
        \A f \in DateFields :
            /\ (f \notin DOMAIN nIn.v /\ NatalKey(f) \in DOMAIN nIn.v) =>
                  /\ f \in DOMAIN nOut.v
                  /\ nOut.v[f] = nIn.v[NatalKey(f)]
            /\ NatalKey(f) \notin DOMAIN nOut.v

C9_Witness ==
    /\ nPc = "render-data"
    /\ nIn = Obj(("natal_year" :> Num(1995)) @@ ("natal_month" :> Num(2000))
                 @@ ("natal_day" :> Num(1995)))
    /\ nOut = Obj(("year" :> Num(1995)) @@ ("month" :> Num(2000))
                  @@ ("day" :> Num(1995)))

\* C10: date-component normalizer: a field f of {year, ..., second} present
\* in the input keeps its input value in the output, whatever natal_f is,
\* and natal_f is dropped.
C10_SuppliedFieldKept ==
    nPc = "render-data" =>
        \A f \in DateFields :
            f \in DOMAIN nIn.v =>
                /\ f \in DOMAIN nOut.v
                /\ nOut.v[f] = nIn.v[f]
                /\ NatalKey(f) \notin DOMAIN nOut.v

C10_Witness ==
    /\ nPc = "render-data"
    /\ nIn = Obj(("year" :> Num(2000)) @@ ("natal_year" :> Num(1995)))
    /\ nOut = Obj("year" :> Num(2000))


(***************************************************************************)
(* Claims on the normalizers: idempotence, the dual-person normalizer      *)
(***************************************************************************)
\* C11: both normalizers are idempotent: a normalizer applied to its own
\* result returns that result, normalize(normalize(b)) = normalize(b).
C11_Idempotent ==
    nPc \in {"render-data-twice", "synastry-twice"} => nAgain = nOut

\* A second application to a result that differs from the input: a
\* person_a built from person1 with a synthesised birth_date.
C11_Witness ==
    /\ nPc = "synastry-twice"
    /\ nOut # nIn
    /\ Get(nIn, "person_a") = Undefined
    /\ Truthy(Get(Get(nOut, "person_a"), "birth_date"))
    /\ ~Truthy(Get(Get(nIn, "person1"), "birth_date"))
    /\ nAgain = nOut


\* The canonical key of each person and its legacy alias.
PersonKeys == { <<"person_a", "person1">>, <<"person_b", "person2">> }

NatalDateKeys == {"natal_year", "natal_month", "natal_day"}
NatalTimeKeys == {"natal_hour", "natal_minute", "natal_second"}

\* n below 100 written with two digits.
TwoDigits(n) == <<Digit(n \div 10), Digit(n % 10)>>

\* An object with the six numeric natal_* components and neither
\* birth_date nor birth_time.
OnlyNumericComponents(p) ==
    /\ IsObject(p)
    /\ \A k \in NatalDateKeys \cup NatalTimeKeys : k \in DOMAIN p.v /\ IsNumber(p.v[k])
    /\ "birth_date" \notin DOMAIN p.v
    /\ "birth_time" \notin DOMAIN p.v

DateStringOf(p) ==
    Str(Digits(p.v["natal_year"].v) \o <<"-">> \o TwoDigits(p.v["natal_month"].v)
        \o <<"-">> \o TwoDigits(p.v["natal_day"].v))

TimeStringOf(p) ==
    Str(TwoDigits(p.v["natal_hour"].v) \o <<":">> \o TwoDigits(p.v["natal_minute"].v)
        \o <<":">> \o TwoDigits(p.v["natal_second"].v))

\* C12: dual-person normalizer: when person_a (person_b) is missing and
\* person1 (person2) is an object with numeric natal_year/month/day and
\* natal_hour/minute/second and no birth_date or birth_time, the output
\* has person_a (person_b) with birth_date = year-MM-DD and birth_time =
\* HH:MM:SS, month, day, hour, minute and second padded to two digits.
C12_PersonSynthesised ==
    nPc = "synastry" =>
        \A pk \in PersonKeys :
            LET legacy == Get(nIn, pk[2])
                built  == Get(nOut, pk[1])
            IN  (pk[1] \notin DOMAIN nIn.v /\ OnlyNumericComponents(legacy)) =>
                    /\ Get(built, "birth_date") = DateStringOf(legacy)
                    /\ Get(built, "birth_time") = TimeStringOf(legacy)

\* person_b built from a person2 born 1990-01-02 at 03:04:05.
C12_Witness ==
    /\ nPc = "synastry"
    /\ "person_b" \notin DOMAIN nIn.v
    /\ OnlyNumericComponents(Get(nIn, "person2"))
    /\ Get(Get(nIn, "person2"), "natal_month") = Num(1)
    /\ Get(Get(nOut, "person_b"), "birth_date")
           = Str(<<"1", "9", "9", "0", "-", "0", "1", "-", "0", "2">>)
    /\ Get(Get(nOut, "person_b"), "birth_time")
           = Str(<<"0", "3", ":", "0", "4", ":", "0", "5">>)

\* C13: dual-person normalizer: a person_a or person_b present in the
\* input is identical in the output, whatever person1 or person2 hold and
\* whatever natal_* fields it has.
C13_CanonicalKept ==
    nPc = "synastry" =>
        \A pk \in PersonKeys :
            pk[1] \in DOMAIN nIn.v => Get(nOut, pk[1]) = nIn.v[pk[1]]

\* person_a supplied with numeric natal_* fields and no birth_date, next
\* to a different person1: person_a comes out as it went in.
C13_Witness ==
    /\ nPc = "synastry"
    /\ "person_a" \in DOMAIN nIn.v
    /\ "person1" \in DOMAIN nIn.v
    /\ Get(nIn, "person1") # Get(nIn, "person_a")
    /\ IsNumber(Get(Get(nIn, "person_a"), "natal_year"))
    /\ IsNumber(Get(Get(nIn, "person_a"), "natal_month"))
    /\ IsNumber(Get(Get(nIn, "person_a"), "natal_day"))
    /\ Get(Get(nIn, "person_a"), "birth_date") = Undefined
    /\ Get(nOut, "person_a") = Get(nIn, "person_a")


\* C14 as stated: every value supplied under an alias (natal_f for the
\* date-component normalizer, person1/person2 for the dual-person
\* normalizer) is in the normalized payload under the alias or under the
\* canonical name.
C14_AsStated ==
    /\ nPc = "render-data" =>
           \A f \in DateFields :
               NatalKey(f) \in DOMAIN nIn.v =>
                   \/ Get(nOut, NatalKey(f)) = nIn.v[NatalKey(f)]
                   \/ Get(nOut, f) = nIn.v[NatalKey(f)]
    /\ nPc = "synastry" =>
           \A pk \in PersonKeys :
               pk[2] \in DOMAIN nIn.v =>
                   \/ Get(nOut, pk[2]) = nIn.v[pk[2]]
                   \/ Get(nOut, pk[1]) = nIn.v[pk[2]]

\* C14: the value supplied under natal_f is the value of f in the
\* normalized payload when the payload has no f; when it has f, f keeps
\* its value and natal_f is gone with the value it had.  person1 and
\* person2 are in the normalized payload with the values supplied.
C14_AliasDataKept ==
    /\ nPc = "render-data" =>
           \A f \in DateFields :
               NatalKey(f) \in DOMAIN nIn.v =>
                   /\ NatalKey(f) \notin DOMAIN nOut.v
                   /\ Get(nOut, f) = IF f \in DOMAIN nIn.v THEN nIn.v[f]
                                     ELSE nIn.v[NatalKey(f)]
    /\ nPc = "synastry" =>
           \A pk \in PersonKeys :
               pk[2] \in DOMAIN nIn.v => Get(nOut, pk[2]) = nIn.v[pk[2]]

\* A payload with natal_year next to a different year, and a natal_f
\* without its f: the first value is gone, the second is under f.
C14_Witness ==
    /\ nPc = "render-data"
    /\ "natal_year" \in DOMAIN nIn.v
    /\ "year" \in DOMAIN nIn.v
    /\ nIn.v["natal_year"] # nIn.v["year"]
    /\ Get(nOut, "year") = nIn.v["year"]
    /\ \E f \in DateFields :
           /\ NatalKey(f) \in DOMAIN nIn.v
           /\ f \notin DOMAIN nIn.v
           /\ Get(nOut, f) = nIn.v[NatalKey(f)]


\* The persons the dual-person normalizer builds: the canonical key, the
\* legacy object it is built from, and the person built.
BuiltPersons ==
    { [from |-> Get(nIn, pk[2]), built |-> Get(nOut, pk[1])] :
        pk \in { k \in PersonKeys :
                    k[1] \notin DOMAIN nIn.v /\ IsObject(Get(nIn, k[2])) } }

\* C15 as stated: a person with any of natal_year, natal_month, natal_day
\* missing gets no birth_date, and a person with any of natal_hour,
\* natal_minute, natal_second missing gets no birth_time.
C15_AsStated ==
    nPc = "synastry" =>
        \A p \in BuiltPersons :
            /\ (\E k \in NatalDateKeys : k \notin DOMAIN p.from.v) =>
                   Get(p.built, "birth_date") = Get(p.from, "birth_date")
            /\ (\E k \in NatalTimeKeys : k \notin DOMAIN p.from.v) =>
                   Get(p.built, "birth_time") = Get(p.from, "birth_time")

OrZero(x) == IF Nullish(x) THEN Num(0) ELSE x

\* C15: with natal_year, natal_month or natal_day missing or not a
\* number no birth_date is synthesised, and with natal_hour missing or not
\* a number no birth_time is: the field stays as supplied (absent if
\* absent).  A missing or null natal_minute or natal_second counts as 0:
\* with a numeric natal_hour and no birth_time, birth_time is HH:MM:SS
\* with 00 for the missing component.
C15_MissingComponent ==
    nPc = "synastry" =>
        \A p \in BuiltPersons :
            LET hour   == Get(p.from, "natal_hour")
                minute == OrZero(Get(p.from, "natal_minute"))
                second == OrZero(Get(p.from, "natal_second"))
            IN  /\ (\E k \in NatalDateKeys : ~IsNumber(Get(p.from, k))) =>
                       Get(p.built, "birth_date") = Get(p.from, "birth_date")
                /\ (~IsNumber(hour) \/ ~IsNumber(minute) \/ ~IsNumber(second)) =>
                       Get(p.built, "birth_time") = Get(p.from, "birth_time")
                /\ ( /\ IsNumber(hour) /\ IsNumber(minute) /\ IsNumber(second)
                     /\ ~Truthy(Get(p.from, "birth_time")) ) =>
                       Get(p.built, "birth_time")
                           = Str(TwoDigits(hour.v) \o <<":">> \o TwoDigits(minute.v)
                                 \o <<":">> \o TwoDigits(second.v))

\* A person with natal_year and natal_month but no natal_day, and with
\* natal_hour alone: no birth_date, and a birth_time of 03:00:00.
C15_Witness ==
    /\ nPc = "synastry"
    /\ \E p \in BuiltPersons :
           /\ {"natal_year", "natal_month", "natal_hour"} \subseteq DOMAIN p.from.v
           /\ DOMAIN p.from.v \cap {"natal_day", "natal_minute", "natal_second",
                                     "birth_date", "birth_time"} = {}
           /\ Get(p.built, "birth_date") = Undefined
           /\ Get(p.built, "birth_time")
                  = Str(<<"0", "3", ":", "0", "0", ":", "0", "0">>)


(***************************************************************************)
(* Claims on the dispatch of the normalizers and on the upstream call      *)
(***************************************************************************)
SolarReturnPath == <<"/", "v1", "/", "solar-return", "/", "calculate">>

\* C16: the normalizer is chosen by exact match on the effective path:
\* for every effective path other than /v1/chart/render-data and
\* /v1/synastry/compare, /v1/solar-return/calculate among them, the body
\* forwarded is the payload unchanged.
C16_OtherPathsUnchanged ==
    \A h \in Handlers :
        \A i \in CallsOf(h) :
            ( /\ effectivePath(h) \notin {RenderDataPath, SynastryPath}
              /\ HasBody(effectiveMethod(h)) ) =>
                calls[i].body = JsonBody(payloadOf(incomingBody[h]))

\* A POST to /v1/solar-return/calculate whose payload has natal_year next
\* to year and a person1: it is forwarded with all of them in place.
C16_Witness ==
    \E h \in Handlers :
        \E i \in CallsOf(h) :
            /\ effectivePath(h) = SolarReturnPath
            /\ calls[i].method = <<"POST">>
            /\ calls[i].body.kind = "json"
            /\ Get(calls[i].body.value, "natal_year") = Num(1995)
            /\ Get(calls[i].body.value, "year") = Num(2000)
            /\ Get(calls[i].body.value, "person1") # Undefined
            /\ Get(calls[i].body.value, "person_a") = Undefined


\* The endpoints docs/proxy.md lists as pass-through.
PassThroughPaths ==
    { SolarReturnPath,
      <<"/", "v1", "/", "chart", "/", "natal">>,
      <<"/", "v1", "/", "chart", "/", "transits">>,
      RenderDataPath,
      <<"/", "v1", "/", "chart", "/", "distributions">>,
      <<"/", "v1", "/", "interpretation", "/", "natal">> }

\* C17: for each endpoint of the pass-through list of the proxy document
\* the body forwarded is the payload exactly as received, with no
\* conversion between year/... and natal_year/... fields.
C17_DocumentedPassThrough ==
    \A h \in Handlers :
        \A i \in CallsOf(h) :
            ( /\ effectivePath(h) \in PassThroughPaths
              /\ HasBody(effectiveMethod(h)) ) =>
                calls[i].body = JsonBody(payloadOf(incomingBody[h]))


C19_FailureAnswered ==
    \A h \in Handlers :
        (upstream[h].outcome = "failed") ~>
            (pc[h] = "done" /\ response[h].sent /\ response[h].status = 500)

\* The upstream could not be reached and the caller has the 500.
C19_Witness ==
    \E h \in Handlers :
        /\ upstream[h].outcome = "failed"
        /\ CallsOf(h) # {}
        /\ pc[h] = "done"
        /\ response[h] = InternalServerError

C21_AbortedOnClose ==
    \A h \in Handlers :
        inbound[h] = "closed" => upstream[h].outcome # "response"


\* What readJsonSafely returns for the request of h, from the request alone.
ownBody(h) ==
    IF Includes(HeaderOr(req[h].headers, "content-type"), "application/json")
    THEN readJsonResult(req[h])
    ELSE Undefined

\* The call of fetch() for the request of h, from the request alone.
ownCall(h) ==
    fetchCall(h, req[h], ownBody(h), URLSearchParams(urlSearch(req[h])),
              SetHeader(req[h].headers, "host", <<upstreamHost>>))

\* C22: under any interleaving of the steps of concurrent invocations, the
\* upstream call of a request is determined by that request alone and its
\* response by that request and its own upstream outcome; every call goes
\* to the one upstream origin.
C22_Independent ==
    \A h \in Handlers :
        /\ Resolved(h) => incomingBody[h] = ownBody(h)
        /\ Cardinality(CallsOf(h)) <= 1
        /\ \A i \in CallsOf(h) : calls[i] = ownCall(h)
        /\ response[h].sent =>
               \/ /\ CallsOf(h) = {}
                  /\ response[h] = RejectionResponse(upstreamPath(req[h], ownBody(h)))
               \/ /\ upstream[h].outcome = "response"
                  /\ response[h] = RelayedResponse(upstream[h])
               \/ /\ upstream[h].outcome = "failed"
                  /\ response[h] = InternalServerError

\* Two different requests in flight together, the second one's call sent
\* first, each answered with its own upstream response.
C22_Witness ==
    /\ req["h1"] # req["h2"]
    /\ Len(calls) = 2
    /\ calls[1].handler = "h2"
    /\ calls[2].handler = "h1"
    /\ calls[1].body # calls[2].body
    /\ pc["h1"] = "done" /\ pc["h2"] = "done"
    /\ response["h1"].status = 200
    /\ response["h2"].status = 503


\* The parsed body has no string path field that starts with "/" (leading
\* white space apart, as the handler reads it).
NoEnvelope(h) == ~Enveloped(h)

\* C23: with no envelope in the parsed body, the effective method, path
\* and query are those of the physical request and the payload is the
\* parsed top-level body, also for a flat payload that has a field named
\* method or query.
C23_PhysicalRequestAuthoritative ==
    \A h \in Handlers :
        (Resolved(h) /\ NoEnvelope(h)) =>
            /\ effectiveMethod(h) = req[h].method
            /\ effectivePath(h) = urlPathname(req[h])
            /\ resolvedQuery(h) = ParamMap(physicalQuery(h))
            /\ IsObject(incomingBody[h]) => payloadOf(incomingBody[h]) = incomingBody[h]
            /\ \A i \in CallsOf(h) :
                  /\ calls[i].method = req[h].method
                  /\ ParamMap(calls[i].query) = ParamMap(physicalQuery(h))


(***************************************************************************)
(* Claims on the headers, the effective path and the envelope path text    *)
(***************************************************************************)
\* C24: the upstream request has every inbound header with its value,
\* except host, which is the host of the upstream origin, and
\* content-type, which is application/json exactly when a body is sent and
\* otherwise as received; it has no other header.
C24_HeadersCopied ==
    \A i \in 1..Len(calls) :
        LET inboundHeaders == req[calls[i].handler].headers
            sent           == calls[i].headers
        IN  /\ DOMAIN sent \subseteq DOMAIN inboundHeaders \cup {"host", "content-type"}
            /\ \A name \in DOMAIN inboundHeaders \ {"host", "content-type"} :
                  name \in DOMAIN sent /\ sent[name] = inboundHeaders[name]
            /\ "host" \in DOMAIN sent /\ sent["host"] = <<upstreamHost>>
            /\ IF calls[i].body.kind # "none"
               THEN /\ "content-type" \in DOMAIN sent
                    /\ sent["content-type"] = <<"application/json">>
               ELSE /\ "content-type" \in DOMAIN sent
                        <=> "content-type" \in DOMAIN inboundHeaders
                    /\ "content-type" \in DOMAIN sent =>
                           sent["content-type"] = inboundHeaders["content-type"]

\* A POST with an authorization header and a content-type with a charset:
\* authorization goes through, content-type is replaced.
C24_Witness ==
    \E i \in 1..Len(calls) :
        LET inboundHeaders == req[calls[i].handler].headers
        IN  /\ "authorization" \in DOMAIN inboundHeaders
            /\ calls[i].headers["authorization"] = inboundHeaders["authorization"]
            /\ calls[i].body.kind = "json"
            /\ inboundHeaders["content-type"] # <<"application/json">>
            /\ calls[i].headers["content-type"] = <<"application/json">>
            /\ inboundHeaders["host"] # calls[i].headers["host"]


\* The envelope path as the claims read it: the path field of the parsed
\* body when it is a string that starts with "/", surrounding white space
\* apart.
HasEnvelopePath(h) ==
    LET p == Get(envelopeOf(incomingBody[h]), "path")
    IN  p.t = "string" /\ StartsWith(Trim(p.v), <<"/">>)

barePathText(h) == BeforeMark(envelopePathText(h))

suffixTaken(h) ==
    LET qs == envelopeQueryString(incomingBody[h])
    IN  IF qs = Undefined THEN <<>> ELSE qs.v

\* C26: the envelope path is split at its first "?": the bare path is the
\* text before it and the suffix all the text after it, further "?"
\* included, and every key=value pair of that text is in the query of the
\* upstream call (with the suffix's value unless the physical query has
\* the key).
C26_SplitAtFirstMark ==
    \A h \in Handlers :
        (Resolved(h) /\ HasEnvelopePath(h)) =>
            LET suffix == AfterMark(envelopePathText(h))
                pairs  == URLSearchParams(suffix)
            IN  /\ envelopeBarePath(h) = BeforeMark(envelopePathText(h))
                /\ suffixTaken(h) = suffix
                /\ \A i \in CallsOf(h) :
                      \A name \in ParamNames(pairs) :
                          /\ Has(calls[i].query, name)
                          /\ ~Has(physicalQuery(h), name) =>
                                 GetParam(calls[i].query, name) = GetParam(pairs, name)


(***************************************************************************)
(* Claims on the synthesised strings, purity, the body sent, termination   *)
(***************************************************************************)
IsDigits(s) == \A i \in 1..Len(s) : s[i] \in { Digit(d) : d \in 0..9 }

\* YYYY-MM-DD
IsDateShape(s) ==
    /\ Len(s) = 10
    /\ s[5] = "-" /\ s[8] = "-"
    /\ IsDigits(SubSeq(s, 1, 4)) /\ IsDigits(SubSeq(s, 6, 7)) /\ IsDigits(SubSeq(s, 9, 10))

\* HH:MM:SS
IsTimeShape(s) ==
    /\ Len(s) = 8
    /\ s[3] = ":" /\ s[6] = ":"
    /\ IsDigits(SubSeq(s, 1, 2)) /\ IsDigits(SubSeq(s, 4, 5)) /\ IsDigits(SubSeq(s, 7, 8))

\* C27: a birth_date the dual-person normalizer synthesises has the shape
\* YYYY-MM-DD and a birth_time it synthesises the shape HH:MM:SS, for
\* integer components in their calendar ranges (year 1..9999).
C27_CanonicalShape ==
    nPc = "synastry" =>
        \A p \in BuiltPersons :
            /\ ( /\ Get(p.built, "birth_date") # Get(p.from, "birth_date")
                 /\ Get(p.from, "natal_year").v \in 1..9999 ) =>
                   /\ Get(p.built, "birth_date").t = "string"
                   /\ IsDateShape(Get(p.built, "birth_date").v)
            /\ Get(p.built, "birth_time") # Get(p.from, "birth_time") =>
                   /\ Get(p.built, "birth_time").t = "string"
                   /\ IsTimeShape(Get(p.built, "birth_time").v)


\* The keys the date-component normalizer may change.
RenderOwnedKeys == DateFields \cup { NatalKey(f) : f \in DateFields }

\* Objects a and b have the same keys with the same values, the keys of
\* owned apart.
SameOutside(a, b, owned) ==
    /\ DOMAIN a.v \ owned = DOMAIN b.v \ owned
    /\ \A k \in DOMAIN a.v \ owned : a.v[k] = b.v[k]

NormalizerStep ==
    /\ nIn' = nIn
    /\ (nPc = "input" /\ nPc' = "render-data") =>
           SameOutside(nIn, nOut', RenderOwnedKeys)
    /\ (nPc = "input" /\ nPc' = "synastry") =>
           /\ SameOutside(nIn, nOut', {"person_a", "person_b"})
           /\ \A k \in DOMAIN nIn.v : k \in DOMAIN nOut'.v /\ nOut'.v[k] = nIn.v[k]

\* C28: the normalizers are pure: a step of either leaves its input as it
\* was; the date-component normalizer leaves every key other than the six
\* unprefixed fields and their natal_ aliases as received, and the
\* dual-person normalizer only adds person_a/person_b, keeping person1,
\* person2 and every other top-level key.
C28_Pure == [][NormalizerStep]_vars

\* A payload with lat next to a natal_ field: the output differs from the
\* input, and lat is in it as received.
C28_Witness ==
    /\ nPc = "render-data"
    /\ nOut # nIn
    /\ "lat" \in DOMAIN nIn.v
    /\ Get(nOut, "lat") = nIn.v["lat"]
    /\ \E f \in DateFields : NatalKey(f) \in DOMAIN nIn.v


\* The inbound request has no body the handler reads: none, one that is
\* not JSON, or one under a content-type other than application/json.
Unread(h) ==
    \/ req[h].body.kind # "json"
    \/ ~Includes(HeaderOr(req[h].headers, "content-type"), "application/json")

\* C29: a forwarded request whose effective method is neither GET nor HEAD
\* is sent with content-type application/json and a JSON body: {} when
\* the inbound request had no body, a content-type that is not
\* application/json or malformed JSON, the normalized payload otherwise;
\* never the inbound body as it came.
C29_JsonBodyAlwaysSent ==
    \A i \in 1..Len(calls) :
        LET h == calls[i].handler
        IN  HasBody(calls[i].method) =>
                /\ calls[i].body.kind = "json"
                /\ "content-type" \in DOMAIN calls[i].headers
                /\ calls[i].headers["content-type"] = <<"application/json">>
                /\ calls[i].body.value =
                       IF Unread(h) THEN EmptyObj
                       ELSE normalizedPayload(effectivePath(h),
                                              payloadOf(req[h].body.value))

\* A POST with a JSON text under content-type text/plain: {} is sent as
\* application/json.
C29_Witness ==
    \E i \in 1..Len(calls) :
        LET h == calls[i].handler
        IN  /\ calls[i].method = <<"POST">>
            /\ req[h].body.kind = "json"
            /\ req[h].body.value # EmptyObj
            /\ HeaderOr(req[h].headers, "content-type") = <<"text/plain">>
            /\ calls[i].body = JsonBody(EmptyObj)
            /\ calls[i].headers["content-type"] = <<"application/json">>


\* The three responses a caller can get.
IsRejection(r) == r.sent /\ r.status = 400
IsRelayed(h)  == response[h] = [sent |-> TRUE, status |-> upstream[h].status,
                               headers |-> upstream[h].headers,
                               body |-> upstream[h].body]
                 /\ upstream[h].outcome = "response"
IsServerError(r) == r = InternalServerError

\* One step of the handlers: a response once sent is never replaced, and
\* an invocation leaves the wait for the upstream only because the
\* upstream has just responded or failed.
AnsweredOnceStep ==
    \A h \in Handlers :
        /\ response[h].sent => response'[h] = response[h]
        /\ (pc[h] = "fetching" /\ pc'[h] # "fetching") =>
               /\ upstream[h] = NotCalled
               /\ upstream'[h].outcome \in {"response", "failed"}
        /\ (pc[h] = "fetching" /\ pc'[h] = "fetching") =>
               (~response'[h].sent /\ upstream'[h] = NotCalled)

\* C30: when every step of the handler that can run does run and the
\* upstream call settles, every accepted request is eventually answered,
\* by the 400 rejection, by the relayed upstream response or by the
\* server's 500; the response is sent once; and the handler ends its wait
\* for the upstream only when the upstream responds or fails.
C30_EventuallyAnswered ==
    /\ \A h \in Handlers :
           (pc[h] = "accepted") ~>
               /\ pc[h] = "done"
               /\ \/ IsRejection(response[h]) /\ upstream[h] = NotCalled
                  \/ IsRelayed(h)
                  \/ IsServerError(response[h]) /\ upstream[h].outcome = "failed"
    /\ [][AnsweredOnceStep]_vars

\* Both requests answered, one with the 400 and one after the upstream
\* failed.
C30_Witness ==
    /\ \A h \in Handlers : pc[h] = "done" /\ response[h].sent
    /\ \E h \in Handlers : IsRejection(response[h]) /\ upstream[h] = NotCalled
    /\ \E h \in Handlers :
           IsServerError(response[h]) /\ upstream[h].outcome = "failed"

=============================================================================
